---------------------------- MODULE Spec2Model ----------------------------
(***************************************************************************)
(* A model of the media-link bot: the extractor registry                   *)
(* (app/extractors/registry.py), the chat configuration store              *)
(* (app/db/queries.py), the update handlers (app/bot/handlers.py) and the  *)
(* migration runner (app/db/migrations.py).                                *)
(*                                                                         *)
(* A URL is a sequence of lexical tokens ("http", "s", "://", "www.",      *)
(* "tiktok", ".com", "/", ...); a regular expression of the registry is a  *)
(* sequence of elements, each a set of alternative token sequences or the  *)
(* trailing ".*".  Tokens are cut where the literals of the patterns end,  *)
(* so matching token by token agrees with matching character by character. *)
(***************************************************************************)
EXTENDS Integers, Sequences, FiniteSets, TLC

VARIABLES
    cfg,        \* the process settings: WHITELIST, ADMINS, DEFAULT_MEDIA_ALBUM_LIMIT
    chat,       \* table chat: chat_id -> its row (type)
    settings,   \* table settings: chat_id -> its row (the chat's preferences)
    errors,     \* table errors: error id -> its row (message, occurrences, last_seen)
    media,      \* table media (with its item and format): the download history
    task,       \* the url_handler invocation in flight (its locals), or Idle
    cur,        \* what url_handler did for the URL of its latest loop iteration
    last,       \* the latest update handled: handler, sender, response
    call,       \* the latest operation applied to the configuration store
    probe,      \* the latest URL given to match_extractor, and its result
    menus,      \* chat_id -> the bot's messages with an inline keyboard in that chat
    mig,        \* the migrations directory, schema_migrations, and the run in flight
    presses     \* the cb_toggle_extractor invocations in flight: what each has read

vars == <<cfg, chat, settings, errors, media, task, cur, last, call, probe, menus, mig,
          presses>>

-----------------------------------------------------------------------------
(* Regular expressions over tokens                                         *)

\* re.IGNORECASE: the upper-case spellings of the tokens fold to the lower-case ones.
CaseFold(t) ==
    CASE t = "HTTP" -> "http"
      [] t = "S" -> "s"
      [] t = "WWW." -> "www."
      [] t = "TikTok" -> "tiktok"
      [] t = ".COM" -> ".com"
      [] OTHER -> t

\* pattern elements: a literal, an optional literal, alternatives, ".*", and "\S"
Lit(t) == [kind |-> "alts", alts |-> {<<t>>}]
Opt(t) == [kind |-> "alts", alts |-> {<<>>, <<t>>}]
Alt(S) == [kind |-> "alts", alts |-> S]
AnyRest == [kind |-> "rest", alts |-> {}]
NonSpace == [kind |-> "token", alts |-> {}]

HasPrefixAt(url, j, a) ==
    /\ j + Len(a) - 1 <= Len(url)
    /\ \A k \in 1..Len(a) : CaseFold(url[j + k - 1]) = a[k]

\* Pattern.match(url): the pattern matches a prefix of url, from its first character.
RECURSIVE MatchAt(_, _, _, _)
MatchAt(pat, i, url, j) ==
    IF i > Len(pat) THEN TRUE
    ELSE IF pat[i].kind = "rest"
         THEN \E k \in j..(Len(url) + 1) : MatchAt(pat, i + 1, url, k)
    ELSE IF pat[i].kind = "token"
         THEN j <= Len(url) /\ MatchAt(pat, i + 1, url, j + 1)
         ELSE \E a \in pat[i].alts :
                 HasPrefixAt(url, j, a) /\ MatchAt(pat, i + 1, url, j + Len(a))

\* https?://<host>/<path>.*  with host and path given as pattern elements
_p(host, path) ==
    <<Lit("http"), Opt("s"), Lit("://")>> \o host \o <<Lit("/")>> \o path \o <<AnyRest>>

Extractor(id, pattern, hidden, redirect) ==
    [id |-> id, url_pattern |-> pattern, hidden |-> hidden, redirect |-> redirect]

EXTRACTORS ==
    << Extractor("tiktok", _p(<<Opt("www."), Lit("tiktok"), Lit(".com")>>, <<>>), FALSE, FALSE),
       Extractor("tiktok_vm", _p(<<Lit("vm."), Lit("tiktok"), Lit(".com")>>, <<>>), TRUE, TRUE),
       Extractor("soundcloud", _p(<<Opt("www."), Lit("soundcloud"), Lit(".com")>>, <<>>), FALSE, FALSE),
       Extractor("soundcloud_short", _p(<<Lit("on."), Lit("soundcloud"), Lit(".com")>>, <<>>), TRUE, TRUE),
       Extractor("twitter", _p(<<Opt("www."), Alt({<<"x">>, <<"twitter">>}), Lit(".com")>>, <<>>), FALSE, FALSE),
       Extractor("twitter_short", _p(<<Lit("t"), Lit(".co")>>, <<>>), TRUE, TRUE),
       Extractor("instagram", _p(<<Opt("www."), Lit("instagram"), Lit(".com")>>, <<>>), FALSE, FALSE),
       Extractor("instagram_stories",
                 _p(<<Opt("www."), Lit("instagram"), Lit(".com")>>, <<Lit("stories"), Lit("/")>>), TRUE, FALSE),
       Extractor("instagram_share",
                 _p(<<Opt("www."), Lit("instagram"), Lit(".com")>>, <<Lit("share"), Lit("/")>>), TRUE, TRUE),
       Extractor("ninegag", _p(<<Opt("www."), Lit("9gag"), Lit(".com")>>, <<>>), FALSE, FALSE),
       Extractor("youtube",
                 _p(<<Opt("www."), Alt({<<"youtube", ".com">>, <<"youtu", ".be">>})>>, <<>>), FALSE, FALSE),
       Extractor("pinterest", _p(<<Opt("www."), Lit("pinterest"), Lit(".com")>>, <<>>), FALSE, FALSE),
       Extractor("pinterest_short", _p(<<Lit("pin"), Lit(".it")>>, <<>>), TRUE, TRUE),
       Extractor("reddit", _p(<<Opt("www."), Lit("reddit"), Lit(".com")>>, <<>>), FALSE, FALSE),
       Extractor("reddit_short", _p(<<Lit("redd"), Lit(".it")>>, <<>>), TRUE, TRUE),
       Extractor("threads", _p(<<Opt("www."), Lit("threads"), Lit(".net")>>, <<>>), FALSE, FALSE) >>

\* Python's None, as match_extractor returns it
None == [id |-> "None", url_pattern |-> <<>>, hidden |-> FALSE, redirect |-> FALSE]

Accepts(ex, url) == MatchAt(ex.url_pattern, 1, url, 1)

\* for ex in <table>: if ex.url_pattern.match(url): return ex
RECURSIVE ScanFrom(_, _, _)
ScanFrom(table, i, url) ==
    IF i > Len(table) THEN None
    ELSE IF Accepts(table[i], url) THEN table[i]
    ELSE ScanFrom(table, i + 1, url)

\* a scan that passes over the hidden descriptors
RECURSIVE ScanVisible(_, _, _)
ScanVisible(table, i, url) ==
    IF i > Len(table) THEN None
    ELSE IF ~table[i].hidden /\ Accepts(table[i], url) THEN table[i]
    ELSE ScanVisible(table, i + 1, url)

\* a match among the visible descriptors only
Match_visible(table, url) == ScanVisible(table, 1, url)

\* match_extractor, run on a table
Match(table, url) == ScanFrom(table, 1, url)

\* a listing of the whole table
Visible_all(table) == table

\* list_visible_extractors, run on a table: [e for e in <table> if not e.hidden]
Visible(table) == SelectSeq(table, LAMBDA e : ~e.hidden)

\* the table with the hidden flag set on the positions H and cleared elsewhere
Registry(H) == [i \in 1..Len(EXTRACTORS) |-> [EXTRACTORS[i] EXCEPT !.hidden = (i \in H)]]

\* the positions of the descriptors that are declared hidden
ShippedHidden == {i \in 1..Len(EXTRACTORS) : EXTRACTORS[i].hidden}

RECURSIVE ScanBack(_, _)
ScanBack(i, url) ==
    IF i < 1 THEN None
    ELSE IF Accepts(EXTRACTORS[i], url) THEN EXTRACTORS[i]
    ELSE ScanBack(i - 1, url)

\* a scan that keeps the latest match instead of returning the first one
match_extractor_last(url) == ScanBack(Len(EXTRACTORS), url)

\* a scan that falls back to the first descriptor when no pattern accepts the URL
match_extractor_or_first(url) ==
    IF Match(EXTRACTORS, url) = None THEN EXTRACTORS[1] ELSE Match(EXTRACTORS, url)

match_extractor(url) == Match(EXTRACTORS, url)

list_visible_extractors == Visible(EXTRACTORS)

ExtractorIds == {EXTRACTORS[i].id : i \in 1..Len(EXTRACTORS)}

-----------------------------------------------------------------------------
(* Settings (app/config/settings.py) and the people and chats of the model *)

Users == {1, 2}
NoUser == 0                      \* message.from_user is None
ChatIds == {1, 2}                \* 1: the private chat of user 1; 2: a group
Members(c) == IF c = 1 THEN {1} ELSE Users

_chat_type_str(c) == IF c = 2 THEN "group" ELSE "private"

DEFAULT_LANGUAGE == "en"
DEFAULT_ENABLE_CAPTIONS == TRUE
DEFAULT_ENABLE_SILENT == FALSE
DEFAULT_ENABLE_NSFW == FALSE
DEFAULT_DELETE_LINKS == FALSE

Settings(whitelist, admins, limit) ==
    [WHITELIST |-> whitelist, ADMINS |-> admins, DEFAULT_MEDIA_ALBUM_LIMIT |-> limit]

\* a gate that treats the whitelist as the admin list
_is_admin_whitelist(user_id) == user_id \in cfg.WHITELIST

_is_admin(user_id) == user_id \in cfg.ADMINS

_is_whitelisted(user_id) ==
    IF cfg.WHITELIST = {} THEN TRUE ELSE user_id \in cfg.WHITELIST

-----------------------------------------------------------------------------
(* The configuration store (app/db/queries.py): each table is a function   *)
(* from its primary key to its row; each query is the table after it.      *)

InArray(x, arr) == \E k \in 1..Len(arr) : arr[k] = x
array_append(arr, x) == Append(arr, x)
array_remove(arr, x) == SelectSeq(arr, LAMBDA y : y # x)

\* INSERT INTO chat ... ON CONFLICT (chat_id) DO NOTHING
UpsertChat(ch, chat_id, chat_type) ==
    IF chat_id \in DOMAIN ch THEN ch
    ELSE [c \in DOMAIN ch \cup {chat_id} |->
            IF c = chat_id THEN [type |-> chat_type] ELSE ch[c]]

NewSettingsRow ==
    [ language |-> DEFAULT_LANGUAGE,
      captions |-> DEFAULT_ENABLE_CAPTIONS,
      silent |-> DEFAULT_ENABLE_SILENT,
      nsfw |-> DEFAULT_ENABLE_NSFW,
      media_album_limit |-> cfg.DEFAULT_MEDIA_ALBUM_LIMIT,
      delete_links |-> DEFAULT_DELETE_LINKS,
      disabled_extractors |-> <<>> ]

\* an upsert that writes the instance defaults over the row it finds
UpsertSettings_reset(st, chat_id) ==
    [c \in DOMAIN st \cup {chat_id} |-> IF c = chat_id THEN NewSettingsRow ELSE st[c]]

\* an upsert that takes the language of the insert whatever the row holds
UpsertSettings_relabel(st, chat_id) ==
    IF chat_id \in DOMAIN st
    THEN [st EXCEPT ![chat_id].language = DEFAULT_LANGUAGE]
    ELSE [c \in DOMAIN st \cup {chat_id} |->
            IF c = chat_id THEN NewSettingsRow ELSE st[c]]

\* INSERT INTO settings ... ON CONFLICT (chat_id) DO UPDATE SET language = CASE ...
UpsertSettings(st, chat_id) ==
    IF chat_id \in DOMAIN st
    THEN [st EXCEPT ![chat_id].language = IF @ = "XX" THEN DEFAULT_LANGUAGE ELSE @]
    ELSE [c \in DOMAIN st \cup {chat_id} |->
            IF c = chat_id THEN NewSettingsRow ELSE st[c]]

\* the ChatRow that get_or_create_chat returns, read from the tables after it
ChatRow(ch, st, chat_id) ==
    [ chat_id |-> chat_id,
      type |-> ch[chat_id].type,
      nsfw |-> st[chat_id].nsfw,
      media_album_limit |-> st[chat_id].media_album_limit,
      captions |-> st[chat_id].captions,
      silent |-> st[chat_id].silent,
      language |-> st[chat_id].language,
      disabled_extractors |-> st[chat_id].disabled_extractors,
      delete_links |-> st[chat_id].delete_links ]

set_chat_language(st, chat_id, language) ==
    IF chat_id \in DOMAIN st THEN [st EXCEPT ![chat_id].language = language] ELSE st

\* a toggle that writes a whole row back, built from the defaults
toggle_chat_captions_rewrite(st, chat_id) ==
    IF chat_id \in DOMAIN st
    THEN [st EXCEPT ![chat_id] = [NewSettingsRow EXCEPT !.captions = ~st[chat_id].captions]]
    ELSE st

toggle_chat_captions(st, chat_id) ==
    IF chat_id \in DOMAIN st THEN [st EXCEPT ![chat_id].captions = ~@] ELSE st

toggle_chat_nsfw(st, chat_id) ==
    IF chat_id \in DOMAIN st THEN [st EXCEPT ![chat_id].nsfw = ~@] ELSE st

toggle_chat_silent(st, chat_id) ==
    IF chat_id \in DOMAIN st THEN [st EXCEPT ![chat_id].silent = ~@] ELSE st

toggle_chat_delete_links(st, chat_id) ==
    IF chat_id \in DOMAIN st THEN [st EXCEPT ![chat_id].delete_links = ~@] ELSE st

set_chat_media_album_limit(st, chat_id, limit) ==
    IF chat_id \in DOMAIN st THEN [st EXCEPT ![chat_id].media_album_limit = limit] ELSE st

\* an append that does not look whether the id is already there
add_disabled_extractor_unguarded(st, chat_id, extractor_id) ==
    IF chat_id \in DOMAIN st
    THEN [st EXCEPT ![chat_id].disabled_extractors = array_append(@, extractor_id)]
    ELSE st

add_disabled_extractor(st, chat_id, extractor_id) ==
    IF chat_id \in DOMAIN st /\ ~InArray(extractor_id, st[chat_id].disabled_extractors)
    THEN [st EXCEPT ![chat_id].disabled_extractors = array_append(@, extractor_id)]
    ELSE st

remove_disabled_extractor(st, chat_id, extractor_id) ==
    IF chat_id \in DOMAIN st
    THEN [st EXCEPT ![chat_id].disabled_extractors = array_remove(@, extractor_id)]
    ELSE st

\* hashlib.sha256(str(e).encode("utf-8")).hexdigest()[:16], for the texts that the
\* extraction tool, the transport and the store raise here
ErrId(text) ==
    CASE text = "timeout" -> "f77d1bb58da886e3"
      [] text = "unsupported" -> "60945d49535300be"
      [] text = "send" -> "27ce1d1bf4270020"
      [] text = "insert" -> "1e22560cee2c4b72"

\* NOW(): a reading of the clock later than every last_seen of the table
Now(er) ==
    LET seen == {er[i].last_seen : i \in DOMAIN er}
    IN  IF seen = {} THEN 1 ELSE 1 + CHOOSE t \in seen : \A x \in seen : x <= t

\* a conflict that replaces the row it finds by a fresh one
log_error_overwrite(er, error_id, message) ==
    [i \in DOMAIN er \cup {error_id} |->
        IF i = error_id
        THEN [message |-> message, occurrences |-> 1, last_seen |-> Now(er)]
        ELSE er[i]]

\* INSERT INTO errors (id, message) ... ON CONFLICT (id) DO UPDATE
\* SET occurrences = errors.occurrences + 1, last_seen = NOW()
log_error(er, error_id, message) ==
    IF error_id \in DOMAIN er
    THEN [er EXCEPT ![error_id].occurrences = @ + 1, ![error_id].last_seen = Now(er)]
    ELSE [i \in DOMAIN er \cup {error_id} |->
            IF i = error_id
            THEN [message |-> message, occurrences |-> 1, last_seen |-> Now(er)]
            ELSE er[i]]

get_error_by_id(er, error_id) ==
    IF error_id \in DOMAIN er THEN er[error_id].message ELSE "None"

\* one media row, with its media_item and media_format rows, in one transaction
insert_download(md, content_url, extractor_id, chat_id) ==
    Append(md, [content_url |-> content_url, extractor_id |-> extractor_id,
                chat_id |-> chat_id])

EmptyTable == [c \in {} |-> 0]

-----------------------------------------------------------------------------
(* The initial state: empty tables, no update handled yet                  *)

Idle == [active |-> FALSE]
NoCur ==
    [ url |-> <<>>, ex |-> "None", handled |-> FALSE, skipped |-> FALSE, replies |-> 0,
      resolve_called |-> FALSE, resolve_ok |-> FALSE, resolved |-> <<>>,
      download_called |-> FALSE, download_url |-> <<>>, download_ok |-> FALSE,
      max_items |-> 0, failed |-> FALSE, fail_op |-> "none", errs |-> <<>>, rows |-> <<>>,
      sent |-> 0, aborted |-> FALSE ]
NoUpdate ==
    [handler |-> "", user |-> NoUser, chat |-> 0, arg |-> "", responded |-> FALSE, prev |-> <<>>]
NoCall == [op |-> ""]
NoProbe == [url |-> <<>>, id |-> "unset", hidden |-> {}, flagged |-> "unset", visible |-> <<>>]

\* no run of run_migrations in flight
NoRun == [active |-> FALSE]

\* an empty migrations directory and a database without schema_migrations rows
NoMig == [dir |-> {}, schema_migrations |-> {}, committed |-> <<>>, run |-> NoRun,
          runs |-> 0, aborts |-> 0]

\* no cb_toggle_extractor in flight
NoPresses == [p \in {} |-> 0]

Quiet ==
    /\ chat = EmptyTable
    /\ settings = EmptyTable
    /\ errors = EmptyTable
    /\ media = <<>>
    /\ task = Idle
    /\ cur = NoCur
    /\ last = NoUpdate
    /\ call = NoCall
    /\ probe = NoProbe
    /\ mig = NoMig
    /\ presses = NoPresses
    /\ menus = [c \in ChatIds |-> 0]

\* the settings of settings.py as shipped: no whitelist, no admins, limit 10
ShippedSettings == Settings({}, {}, 10)

-----------------------------------------------------------------------------
(* SpecMatch: match_extractor applied to URLs                              *)

Schemes == {<<"http">>, <<"http", "s">>, <<"HTTP", "S">>, <<"ftp">>}
Prefixes == {<<>>, <<"www.">>, <<"WWW.">>, <<"vm.">>, <<"on.">>}
Hosts ==
    { <<"tiktok", ".com">>, <<"TikTok", ".COM">>, <<"soundcloud", ".com">>,
      <<"x", ".com">>, <<"twitter", ".com">>, <<"t", ".co">>, <<"instagram", ".com">>,
      <<"9gag", ".com">>, <<"youtube", ".com">>, <<"youtu", ".be">>,
      <<"pinterest", ".com">>, <<"pin", ".it">>, <<"reddit", ".com">>,
      <<"redd", ".it">>, <<"threads", ".net">>, <<"example", ".com">>,
      <<"tiktok", ".co">>, <<"youtube", ".be">> }
Tails ==
    { <<>>, <<"/">>, <<"/", "v">>, <<"/", "stories", "/", "a">>,
      <<"/", "share", "/", "a">>, <<"/", "stories">> }

ProbeUrls ==
    { s \o <<"://">> \o p \o h \o t : s \in Schemes, p \in Prefixes, h \in Hosts, t \in Tails }

\* the hidden flags tried: as declared, none, all, and the declared ones inverted
HiddenSets ==
    { ShippedHidden, {}, 1..Len(EXTRACTORS), (1..Len(EXTRACTORS)) \ ShippedHidden }

InitMatch ==
    /\ cfg = ShippedSettings
    /\ chat = EmptyTable
    /\ settings = EmptyTable
    /\ errors = EmptyTable
    /\ media = <<>>
    /\ task = Idle
    /\ cur = NoCur
    /\ last = NoUpdate
    /\ call = NoCall
    /\ menus = [c \in ChatIds |-> 0]
    /\ mig = NoMig
    /\ presses = NoPresses
    /\ \E u \in ProbeUrls, H \in HiddenSets :
          probe = [url |-> u, id |-> "unset", hidden |-> H, flagged |-> "unset",
                   visible |-> <<>>]

Probe ==
    /\ probe.id = "unset"
    /\ probe' = [probe EXCEPT !.id = match_extractor(probe.url).id,
                              !.flagged = Match(Registry(probe.hidden), probe.url).id,
                              !.visible = Visible(Registry(probe.hidden))]
    /\ UNCHANGED <<cfg, chat, settings, errors, media, task, cur, last, call, menus, mig,
                   presses>>

NextMatch == Probe

SpecMatch == InitMatch /\ [][NextMatch]_vars

-----------------------------------------------------------------------------
(* SpecStore: the queries on disabled_extractors applied to the store      *)

StoreIds == {"youtube", "tiktok_vm"}

DisabledBefore(c) ==
    IF c \in DOMAIN settings
    THEN [exists |-> TRUE, arr |-> settings[c].disabled_extractors]
    ELSE [exists |-> FALSE, arr |-> <<>>]

Called(op, c, x) ==
    call' = [ op |-> op, chat_id |-> c, arg |-> x, before |-> DisabledBefore(c),
              again |-> (call.op = op /\ call.chat_id = c /\ call.arg = x) ]

StoreRest == UNCHANGED <<cfg, errors, media, task, cur, last, probe, menus, mig, presses>>

StoreGetOrCreateChat(c) ==
    /\ chat' = UpsertChat(chat, c, _chat_type_str(c))
    /\ settings' = UpsertSettings(settings, c)
    /\ Called("get_or_create_chat", c, "")
    /\ StoreRest

StoreAddDisabledExtractor(c, x) ==
    /\ settings' = add_disabled_extractor(settings, c, x)
    /\ Called("add_disabled_extractor", c, x)
    /\ UNCHANGED chat
    /\ StoreRest

StoreRemoveDisabledExtractor(c, x) ==
    /\ settings' = remove_disabled_extractor(settings, c, x)
    /\ Called("remove_disabled_extractor", c, x)
    /\ UNCHANGED chat
    /\ StoreRest

InitStore == cfg = ShippedSettings /\ Quiet

NextStore ==
    \E c \in ChatIds :
        \/ StoreGetOrCreateChat(c)
        \/ \E x \in StoreIds : StoreAddDisabledExtractor(c, x)
        \/ \E x \in StoreIds : StoreRemoveDisabledExtractor(c, x)

SpecStore == InitStore /\ [][NextStore]_vars

-----------------------------------------------------------------------------
(* SpecPrefs: get_or_create_chat and the updates of single fields, applied *)
(* to the store in any order; each is one SQL statement                    *)

ChatTypes == {"private", "group"}
PrefsToggles(c) ==
    IF c = 2 THEN {"captions", "silent", "nsfw", "delete_links"} ELSE {"captions"}
PrefsLanguages(c) == IF c = 2 THEN {"de", "XX"} ELSE {"de"}
PrefsLimits == {3}
PrefsIds == {"youtube"}

\* the toggle query that cb_toggle calls for an action
ToggleQuery(action, st, c) ==
    CASE action = "captions" -> toggle_chat_captions(st, c)
      [] action = "silent" -> toggle_chat_silent(st, c)
      [] action = "nsfw" -> toggle_chat_nsfw(st, c)
      [] action = "delete_links" -> toggle_chat_delete_links(st, c)

PrefsCalled(op, c, x, returned) ==
    call' = [op |-> op, chat_id |-> c, arg |-> x, returned |-> returned]

PrefsRest == UNCHANGED <<cfg, errors, media, task, cur, last, probe, menus, mig, presses>>

PrefsGetOrCreateChat(c, chat_type) ==
    /\ chat' = UpsertChat(chat, c, chat_type)
    /\ settings' = UpsertSettings(settings, c)
    /\ PrefsCalled("get_or_create_chat", c, chat_type, <<ChatRow(chat', settings', c)>>)
    /\ PrefsRest

PrefsUpdate(op, c, x, st) ==
    /\ settings' = st
    /\ PrefsCalled(op, c, x, <<>>)
    /\ UNCHANGED chat
    /\ PrefsRest

PrefsToggle(c, action) ==
    PrefsUpdate("toggle", c, action, ToggleQuery(action, settings, c))

PrefsSetLanguage(c, lang) ==
    PrefsUpdate("set_chat_language", c, lang, set_chat_language(settings, c, lang))

PrefsSetLimit(c, n) ==
    PrefsUpdate("set_chat_media_album_limit", c, "", set_chat_media_album_limit(settings, c, n))

PrefsAddDisabled(c, x) ==
    PrefsUpdate("add_disabled_extractor", c, x, add_disabled_extractor(settings, c, x))

InitPrefs == cfg = ShippedSettings /\ Quiet

NextPrefs ==
    \/ \E c \in ChatIds, chat_type \in ChatTypes : PrefsGetOrCreateChat(c, chat_type)
    \/ \E c \in ChatIds : \E action \in PrefsToggles(c) : PrefsToggle(c, action)
    \/ \E c \in ChatIds : \E lang \in PrefsLanguages(c) : PrefsSetLanguage(c, lang)
    \/ \E n \in PrefsLimits : PrefsSetLimit(2, n)
    \/ \E x \in PrefsIds : PrefsAddDisabled(2, x)

SpecPrefs == InitPrefs /\ [][NextPrefs]_vars

-----------------------------------------------------------------------------
(* The update handlers (app/bot/handlers.py).  A handler that awaits only  *)
(* the store and the transport is one action; url_handler is one action    *)
(* for its gate and one for each iteration of its loop over the URLs.      *)

MaxMenus == 1

\* the settings row of chat c as a sequence: empty when the chat has no row
RowOf(c) == IF c \in DOMAIN settings THEN <<settings[c]>> ELSE <<>>

Handled(h, u, c, arg, responded) ==
    last' = [ handler |-> h, user |-> u, chat |-> c, arg |-> arg,
              responded |-> responded, prev |-> RowOf(c) ]

HandlerRest == UNCHANGED <<cfg, call, probe, mig, presses>>
NoUrlWork == UNCHANGED <<errors, media, task, cur>>

\* chat = await queries.get_or_create_chat(...), then an update st of the settings
\* table, then get_or_create_chat again where the handler reads the chat back
GetOrCreateChat(c) ==
    /\ chat' = UpsertChat(chat, c, _chat_type_str(c))
    /\ settings' = UpsertSettings(settings, c)

UpdateAndReadBack(c, st) ==
    /\ chat' = UpsertChat(chat, c, _chat_type_str(c))
    /\ settings' = UpsertSettings(st, c)

\* a command that answers with a new message carrying an inline keyboard
MenuCommand(h, u, c) ==
    /\ IF u = NoUser \/ ~_is_whitelisted(u)
       THEN /\ UNCHANGED <<chat, settings, menus>>
            /\ Handled(h, u, c, "", FALSE)
       ELSE /\ menus[c] < MaxMenus
            /\ GetOrCreateChat(c)
            /\ menus' = [menus EXCEPT ![c] = @ + 1]
            /\ Handled(h, u, c, "", TRUE)
    /\ NoUrlWork
    /\ HandlerRest

cmd_start(u, c) == MenuCommand("cmd_start", u, c)

cmd_settings(u, c) == MenuCommand("cmd_settings", u, c)

\* a callback query comes from a button of a message of the bot in the chat
Pressed(u, c) == u \in Members(c) /\ menus[c] > 0

\* a callback that reads the chat and edits the message to show another screen
ScreenCallback(h, u, c) ==
    /\ Pressed(u, c)
    /\ GetOrCreateChat(c)
    /\ Handled(h, u, c, "", TRUE)
    /\ UNCHANGED menus
    /\ NoUrlWork
    /\ HandlerRest

cb_start(u, c) == ScreenCallback("cb_start", u, c)

cb_settings(u, c) == ScreenCallback("cb_settings", u, c)

cb_select_language(u, c) == ScreenCallback("cb_select_language", u, c)

cb_album_limit(u, c) == ScreenCallback("cb_album_limit", u, c)

cb_disabled_extractors(u, c) == ScreenCallback("cb_disabled_extractors", u, c)

cb_extractors(u, c) == ScreenCallback("cb_extractors", u, c)

\* call.message.delete(), its failure ignored, then call.answer()
cb_close(u, c) ==
    /\ Pressed(u, c)
    /\ \E deleted \in BOOLEAN :
          menus' = [menus EXCEPT ![c] = IF deleted THEN @ - 1 ELSE @]
    /\ Handled("cb_close", u, c, "", FALSE)
    /\ UNCHANGED <<chat, settings>>
    /\ NoUrlWork
    /\ HandlerRest

ToggleActions == {"captions", "silent", "nsfw", "delete_links", "other"}

cb_toggle(u, c, action) ==
    /\ Pressed(u, c)
    /\ LET st == UpsertSettings(settings, c)
       IN  UpdateAndReadBack(c,
               CASE action = "captions" -> toggle_chat_captions(st, c)
                 [] action = "silent" -> toggle_chat_silent(st, c)
                 [] action = "nsfw" -> toggle_chat_nsfw(st, c)
                 [] action = "delete_links" -> toggle_chat_delete_links(st, c)
                 [] OTHER -> st)
    /\ Handled("cb_toggle", u, c, action, TRUE)
    /\ UNCHANGED menus
    /\ NoUrlWork
    /\ HandlerRest

cb_language(u, c, lang) ==
    /\ Pressed(u, c)
    /\ UpdateAndReadBack(c, set_chat_language(UpsertSettings(settings, c), c, lang))
    /\ Handled("cb_language", u, c, lang, TRUE)
    /\ UNCHANGED menus
    /\ NoUrlWork
    /\ HandlerRest

\* int(call.data.split(".", 2)[2]): the decimal numbers of the model; int() raises
\* ValueError for any other text
Numerals == {"-1", "0", "1", "3", "10", "15", "20", "21", "999"}
IsNumber(s) == s \in Numerals
ParseInt(s) ==
    CASE s = "-1" -> -1
      [] s = "0" -> 0
      [] s = "1" -> 1
      [] s = "3" -> 3
      [] s = "10" -> 10
      [] s = "15" -> 15
      [] s = "20" -> 20
      [] s = "21" -> 21
      [] s = "999" -> 999

\* a limit stored as requested, whatever the instance's limit is
CappedLimit_uncapped(n) == n

\* if n > DEFAULT_MEDIA_ALBUM_LIMIT and DEFAULT_MEDIA_ALBUM_LIMIT > 0: n = DEFAULT_...
CappedLimit(n) ==
    IF n > cfg.DEFAULT_MEDIA_ALBUM_LIMIT /\ cfg.DEFAULT_MEDIA_ALBUM_LIMIT > 0
    THEN cfg.DEFAULT_MEDIA_ALBUM_LIMIT
    ELSE n

cb_album_set(u, c, data) ==
    /\ Pressed(u, c)
    /\ LET n == ParseInt(data)
           st == UpsertSettings(settings, c)
       IN  IF ~IsNumber(data)
           THEN \* int() raises: the handler ends after its first get_or_create_chat
                /\ GetOrCreateChat(c)
                /\ Handled("cb_album_set", u, c, data, FALSE)
           ELSE IF n < 1 \/ n > 20
           THEN \* await call.answer(); return
                /\ GetOrCreateChat(c)
                /\ Handled("cb_album_set", u, c, data, FALSE)
           ELSE /\ UpdateAndReadBack(c, set_chat_media_album_limit(st, c, CappedLimit(n)))
                /\ Handled("cb_album_set", u, c, data, TRUE)
    /\ UNCHANGED menus
    /\ NoUrlWork
    /\ HandlerRest

cb_toggle_extractor(u, c, ex_id) ==
    /\ Pressed(u, c)
    /\ LET st == UpsertSettings(settings, c)
           row == ChatRow(UpsertChat(chat, c, _chat_type_str(c)), st, c)
       IN  UpdateAndReadBack(c,
               IF InArray(ex_id, row.disabled_extractors)
               THEN remove_disabled_extractor(st, c, ex_id)
               ELSE add_disabled_extractor(st, c, ex_id))
    /\ Handled("cb_toggle_extractor", u, c, ex_id, TRUE)
    /\ UNCHANGED menus
    /\ NoUrlWork
    /\ HandlerRest

\* get_stats reads the tables; the answer is sent to an admin only
cmd_stats(u, c) ==
    /\ Handled("cmd_stats", u, c, "", u # NoUser /\ _is_admin(u))
    /\ UNCHANGED <<chat, settings, menus>>
    /\ NoUrlWork
    /\ HandlerRest

\* parts = message.text.split(): arg is parts[1], or "" when the command has no argument
cmd_derr(u, c, arg) ==
    /\ Handled("cmd_derr", u, c, arg, u # NoUser /\ _is_admin(u) /\ arg # "")
    /\ UNCHANGED <<chat, settings, menus>>
    /\ NoUrlWork
    /\ HandlerRest

-----------------------------------------------------------------------------
(* url_handler                                                             *)

MaxEntries == 2      \* the entries of a playlist that the extraction tool returns
MaxWords == 2        \* the words of a message
MaxMediaRows == 1    \* no further URL message once the history holds this many rows
MaxErrorRows == 1    \* no further URL message once this many errors are recorded

\* URL_RE = re.compile(r"https?://\S+", re.IGNORECASE)
URL_RE == <<Lit("http"), Opt("s"), Lit("://"), NonSpace>>

SetMin(S) == CHOOSE x \in S : \A y \in S : x <= y

\* URL_RE.findall on one word: \S+ runs to the end of the word
FindInWord(word) ==
    LET starts == {i \in 1..Len(word) : MatchAt(URL_RE, 1, SubSeq(word, i, Len(word)), 1)}
    IN  IF starts = {} THEN <<>> ELSE <<SubSeq(word, SetMin(starts), Len(word))>>

RECURSIVE _extract_urls(_)
_extract_urls(text) ==
    IF text = <<>> THEN <<>> ELSE FindInWord(Head(text)) \o _extract_urls(Tail(text))

\* the URLs and words of the messages of the model
U_tiktok == <<"http", "s", "://", "www.", "tiktok", ".com", "/", "v">>
U_tiktok_vm == <<"http", "s", "://", "vm.", "tiktok", ".com", "/", "ZM">>
U_example == <<"http", "s", "://", "example", ".com", "/", "foo">>
U_youtube == <<"HTTP", "://", "youtube", ".com", "/", "v">>
W_hello == <<"hello">>
W_see_tiktok_vm == <<"see:">> \o U_tiktok_vm

MessageUrls == {U_tiktok, U_tiktok_vm, U_example, U_youtube}

\* ex = match_extractor(url), worked out once for each URL of the model
Matched == [u \in MessageUrls |-> match_extractor(u)]

MatchOf(url) == IF url \in MessageUrls THEN Matched[url] ELSE match_extractor(url)

\* the extractor name that the extraction tool reports for the URL it was given
YDL_EXTRACTORS ==
    << [name |-> "TikTok", pattern |-> _p(<<Opt("www."), Lit("tiktok"), Lit(".com")>>, <<>>)],
       [name |-> "vm.tiktok", pattern |-> _p(<<Lit("vm."), Lit("tiktok"), Lit(".com")>>, <<>>)],
       [name |-> "youtube", pattern |-> _p(<<Opt("www."), Lit("youtube"), Lit(".com")>>, <<>>)] >>

RECURSIVE YdlScan(_, _)
YdlScan(i, url) ==
    IF i > Len(YDL_EXTRACTORS) THEN "generic"
    ELSE IF MatchAt(YDL_EXTRACTORS[i].pattern, 1, url, 1) THEN YDL_EXTRACTORS[i].name
    ELSE YdlScan(i + 1, url)

InfoExtractors == [u \in MessageUrls |-> YdlScan(1, u)]

InfoExtractor(url) ==
    IF url \in MessageUrls THEN InfoExtractors[url] ELSE YdlScan(1, url)

\* _download_sync: the entries kept of a playlist of n entries, or the single info
NumFiles(playlist, n, max_items) ==
    IF playlist /\ n > 0
    THEN IF max_items >= 1 /\ max_items < n THEN max_items
         ELSE IF max_items < 1 THEN 1 ELSE n
    ELSE 1

\* download(): max_items = int(max_items or settings.DEFAULT_MEDIA_ALBUM_LIMIT)
MaxItems(limit) == IF limit # 0 THEN limit ELSE cfg.DEFAULT_MEDIA_ALBUM_LIMIT

\* a check of the disabled list that lets short links through
IsDisabled_short_links_pass(ex, row) ==
    InArray(ex.id, row.disabled_extractors) /\ ~ex.redirect

\* a check of the disabled list that skips a short link with its source
IsDisabled_by_source(ex, row) ==
    \/ InArray(ex.id, row.disabled_extractors)
    \/ ex.id = "tiktok_vm" /\ InArray("tiktok", row.disabled_extractors)

\* if ex.id in chat.disabled_extractors: continue
IsDisabled(ex, row) == InArray(ex.id, row.disabled_extractors)

\* a resolution that is asked for every matched URL
NeedsRedirect_always(ex) == TRUE

\* if ex.redirect:
NeedsRedirect(ex) == ex.redirect

\* a fallback that gives up the URL when the resolver fails
FinalUrl_no_fallback(url, redirect) == redirect.url

\* final_url = await resolve_redirect(url); except Exception: final_url = url
FinalUrl(url, redirect) == IF redirect.ok THEN redirect.url ELSE url

Repeat(row, n) == [k \in 1..n |-> row]

\* the files of res.files that answer_document has sent when the try block is
\* left: all n, or those before the file whose send raised, or those up to the
\* file whose insert_download raised
FilesSent(n, fail) ==
    IF fail.at \notin 1..n THEN n
    ELSE IF fail.op = "send" THEN fail.at - 1 ELSE fail.at

\* a history that gets a row for every file of the result
RowsWritten_every_file(n, fail) == n

\* the calls of insert_download that have returned when the try block is left:
\* one after each send, up to the file whose send or whose insert raised
RowsWritten(n, fail) == IF fail.at \in 1..n THEN fail.at - 1 ELSE n

\* what one iteration of "for url in urls" does with the descriptor ex that
\* match_extractor returned for url, given what the transport, the resolver, the
\* extraction tool and the store answer (o)
ProcessUrl(url, ex, row, o) ==
    LET base == [NoCur EXCEPT !.url = url, !.ex = ex.id, !.handled = TRUE]
    IN
    IF ex = None THEN [base EXCEPT !.skipped = TRUE]
    ELSE IF IsDisabled(ex, row) THEN [base EXCEPT !.skipped = TRUE]
    ELSE
    LET processing == o.reply_ok
        resolve == NeedsRedirect(ex)
        final_url == IF resolve THEN FinalUrl(url, o.redirect) ELSE url
        max_items == MaxItems(row.media_album_limit)
        began == [base EXCEPT !.replies = IF processing THEN 1 ELSE 0,
                              !.resolve_called = resolve,
                              !.resolve_ok = resolve /\ o.redirect.ok,
                              !.resolved = IF resolve /\ o.redirect.ok
                                           THEN o.redirect.url ELSE <<>>,
                              !.download_called = TRUE,
                              !.download_url = final_url,
                              !.max_items = max_items]
        Err(text) == [id |-> ErrId(text), message |-> "Exception(" \o text \o ")"]
    IN
    IF ~o.download.ok
    THEN \* log_error, then processing.edit_text or message.reply, then continue
         \* (an exception of log_error or of the notice leaves the handler)
         [began EXCEPT !.errs = IF o.log_ok THEN <<Err(o.download.text)>> ELSE <<>>,
                       !.replies = @ + (IF o.log_ok /\ o.notify_ok THEN 1 ELSE 0),
                       !.aborted = ~o.log_ok \/ ~o.notify_ok]
    ELSE
    LET n == NumFiles(o.download.playlist, o.download.n, max_items)
        failed == o.fail.at \in 1..n
        sent == FilesSent(n, o.fail)
        stored == RowsWritten(n, o.fail)
        history == [content_url |-> final_url, extractor_id |-> InfoExtractor(final_url),
                    chat_id |-> row.chat_id]
    IN
    [began EXCEPT !.download_ok = TRUE,
                  !.failed = failed,
                  !.sent = sent,
                  !.rows = Repeat(history, stored),
                  !.fail_op = IF failed THEN o.fail.op ELSE "none",
                  !.errs = IF failed /\ o.log_ok THEN <<Err(o.fail.op)>> ELSE <<>>,
                  !.replies = @ + sent
                                + (IF failed /\ o.log_ok /\ o.notify_ok THEN 1 ELSE 0),
                  !.aborted = failed /\ (~o.log_ok \/ ~o.notify_ok)]

Destinations == {U_tiktok, U_example}

Redirects ==
    {[ok |-> FALSE, url |-> <<>>]} \cup {[ok |-> TRUE, url |-> d] : d \in Destinations}


ErrTexts == {"timeout", "unsupported"}

Downloads ==
    {[ok |-> FALSE, text |-> t, playlist |-> FALSE, n |-> 0] : t \in ErrTexts}
    \cup {[ok |-> TRUE, text |-> "", playlist |-> p, n |-> k] : p \in BOOLEAN, k \in 1..MaxEntries}

Failures ==
    {[at |-> 0, op |-> "none"]}
    \cup {[at |-> k, op |-> x] : k \in 1..MaxEntries, x \in {"send", "insert"}}

\* the answers that an iteration can get: the resolver is asked for a short link
\* only, a file fails only among those delivered, and the reply that reports an
\* error is sent only after one
NoRedirect == [ok |-> FALSE, url |-> <<>>]
NoFailure == [at |-> 0, op |-> "none"]

Oracles(ex, row) ==
    IF ex = None \/ IsDisabled(ex, row)
    THEN {[reply_ok |-> TRUE, redirect |-> NoRedirect,
           download |-> [ok |-> TRUE, text |-> "", playlist |-> FALSE, n |-> 1],
           fail |-> NoFailure, log_ok |-> TRUE, notify_ok |-> TRUE]}
    ELSE { o \in [reply_ok : BOOLEAN,
                  redirect : IF NeedsRedirect(ex) THEN Redirects ELSE {NoRedirect},
                  download : Downloads, fail : Failures, log_ok : BOOLEAN,
                  notify_ok : BOOLEAN] :
             /\ (o.download.ok /\ ~o.download.playlist) => o.download.n = 1
             /\ ~o.download.ok => o.fail = NoFailure
             /\ o.fail.at <= o.download.n
             /\ (o.download.ok /\ o.fail = NoFailure) => (o.log_ok /\ o.notify_ok)
             /\ ~o.log_ok => o.notify_ok }

RECURSIVE LogAll(_, _)
LogAll(er, errs) ==
    IF errs = <<>> THEN er
    ELSE LogAll(log_error(er, Head(errs).id, Head(errs).message), Tail(errs))

RECURSIVE InsertAll(_, _)
InsertAll(md, rows) ==
    IF rows = <<>> THEN md
    ELSE InsertAll(insert_download(md, Head(rows).content_url, Head(rows).extractor_id,
                                   Head(rows).chat_id), Tail(rows))

Occurrences == LET Sum[S \in SUBSET DOMAIN errors] ==
                       IF S = {} THEN 0
                       ELSE LET i == CHOOSE i \in S : TRUE
                            IN  errors[i].occurrences + Sum[S \ {i}]
               IN  Sum[DOMAIN errors]

\* the gate of url_handler, _extract_urls and the read of the chat's preferences
url_handler(u, c, text) ==
    /\ task = Idle
    /\ Len(media) < MaxMediaRows
    /\ Occurrences < MaxErrorRows
    /\ Handled("url_handler", u, c, "", FALSE)
    /\ LET urls == _extract_urls(text)
       IN  IF u = NoUser \/ ~_is_whitelisted(u) \/ urls = <<>>
           THEN UNCHANGED <<chat, settings, task>>
           ELSE /\ GetOrCreateChat(c)
                /\ task' = [ active |-> TRUE, user |-> u, chat |-> c, urls |-> urls,
                             i |-> 1, handled |-> 0,
                             row |-> ChatRow(chat', settings', c) ]
    /\ UNCHANGED <<errors, media, menus, cur>>
    /\ HandlerRest

\* one iteration of the loop over the URLs of the message
url_handler_loop ==
    /\ task # Idle
    /\ task.i <= Len(task.urls)
    /\ LET url == task.urls[task.i]
           ex == MatchOf(url)
       IN  \E o \in Oracles(ex, task.row) :
              LET r == ProcessUrl(url, ex, task.row, o)
              IN  /\ cur' = r
                  /\ errors' = LogAll(errors, r.errs)
                  /\ media' = InsertAll(media, r.rows)
                  /\ task' = [task EXCEPT !.i = IF r.aborted THEN Len(task.urls) + 1
                                               ELSE @ + 1,
                                           !.handled = @ + 1]
                  /\ last' = [ handler |-> "url_handler", user |-> task.user,
                               chat |-> task.chat, arg |-> "",
                               responded |-> r.replies > 0, prev |-> RowOf(task.chat) ]
    /\ UNCHANGED <<chat, settings, menus>>
    /\ HandlerRest

\* the handler returns (or the exception of an iteration ends it): its locals go
url_handler_return ==
    /\ task # Idle
    /\ task.i > Len(task.urls)
    /\ task' = Idle
    /\ cur' = NoCur
    /\ UNCHANGED <<chat, settings, menus, errors, media, last>>
    /\ HandlerRest

\* inline_handler: the query, stripped, is a URL that the registry matches
InlineQueries == {<<>>, W_hello, U_tiktok, U_example}

inline_handler(u, query) ==
    /\ Handled("inline_handler", u, 0, "",
               /\ query # <<>>
               /\ MatchAt(URL_RE, 1, query, 1)
               /\ MatchOf(query) # None)
    /\ UNCHANGED <<chat, settings, menus>>
    /\ NoUrlWork
    /\ HandlerRest

-----------------------------------------------------------------------------
(* Spec: the dispatch of updates, one update handled at a time             *)

Texts(words) == UNION {[1..k -> words] : k \in 1..MaxWords}


DispatchChats == {2}
DispatchWords == {U_example, W_hello}
DispatchToggles == {"captions", "other"}
DispatchSettings == {Settings(w, a, 10) : w \in {{}, {1}}, a \in {{}, {2}}}
Languages == {"de", "XX"}
ToggleIds == {"youtube", "bogus"}
AlbumData == {"0", "3", "15", "999", "abc"}
ErrorIds == {"", ErrId("timeout")}

Init == cfg \in DispatchSettings /\ Quiet

Next ==
    \/ /\ task = Idle
       /\ \E u \in Users \cup {NoUser}, c \in DispatchChats :
             \/ cmd_start(u, c)
             \/ cmd_settings(u, c)
             \/ cmd_stats(u, c)
             \/ \E arg \in ErrorIds : cmd_derr(u, c, arg)
             \/ \E text \in Texts(DispatchWords) : url_handler(u, c, text)
    \/ /\ task = Idle
       /\ \E u \in Users, c \in DispatchChats :
             \/ cb_start(u, c)
             \/ cb_close(u, c)
             \/ cb_settings(u, c)
             \/ \E action \in DispatchToggles : cb_toggle(u, c, action)
             \/ cb_select_language(u, c)
             \/ \E lang \in Languages : cb_language(u, c, lang)
             \/ cb_album_limit(u, c)
             \/ \E data \in AlbumData : cb_album_set(u, c, data)
             \/ cb_disabled_extractors(u, c)
             \/ \E ex_id \in ToggleIds : cb_toggle_extractor(u, c, ex_id)
             \/ cb_extractors(u, c)
    \/ /\ task = Idle
       /\ \E u \in Users, query \in InlineQueries : inline_handler(u, query)
    \/ url_handler_loop
    \/ url_handler_return

Spec == Init /\ [][Next]_vars

-----------------------------------------------------------------------------
(* SpecRoute: URL messages of a chat, and presses of the extractor buttons *)
(* while a message is being handled                                        *)

RouteChats == {2}
RouteWords == {U_tiktok, W_see_tiktok_vm, U_example}
RouteIds == {"tiktok", "tiktok_vm"}

InitRoute == cfg = ShippedSettings /\ Quiet

NextRoute ==
    \E c \in RouteChats :
        \/ cmd_settings(1, c)
        \/ \E ex_id \in RouteIds : cb_toggle_extractor(1, c, ex_id)
        \/ \E text \in Texts(RouteWords) : url_handler(1, c, text)
        \/ url_handler_loop
        \/ url_handler_return

SpecRoute == InitRoute /\ [][NextRoute]_vars

-----------------------------------------------------------------------------
(* SpecAlbum: the album limit set under each instance limit                *)

AlbumSettings == {Settings({}, {}, cap) : cap \in {0, 3, 10, 25}}
AlbumRequests == Numerals \cup {"abc"}

InitAlbum == cfg \in AlbumSettings /\ Quiet

NextAlbum ==
    \E c \in ChatIds :
        \/ cmd_settings(1, c)
        \/ cb_album_limit(1, c)
        \/ \E data \in AlbumRequests : cb_album_set(1, c, data)
        \/ \E action \in ToggleActions \ DispatchToggles : cb_toggle(1, 1, action)

SpecAlbum == InitAlbum /\ [][NextAlbum]_vars

-----------------------------------------------------------------------------
(* SpecMig: runs of run_migrations (app/db/migrations.py) over a           *)
(* migrations directory that grows.  A file is named by the rank of its    *)
(* name in lexical order.                                                  *)

MaxFiles == 3        \* the migration files that can come to exist
MaxRuns == 3         \* the runs of run_migrations

\* sorted([f for f in MIGRATIONS_DIR.glob("*.sql")])
RECURSIVE SortedFiles(_)
SortedFiles(S) ==
    IF S = {} THEN <<>> ELSE <<SetMin(S)>> \o SortedFiles(S \ {SetMin(S)})

\* a block whose SQL stays committed when the record of the file fails
Transaction_autocommit(m, f, ok) ==
    IF ok
    THEN [m EXCEPT !.committed = Append(@, f), !.schema_migrations = @ \cup {f}]
    ELSE [m EXCEPT !.committed = Append(@, f)]

\* async with conn.transaction(): execute(sql); INSERT INTO schema_migrations:
\* both are committed, or (an exception in either) neither is
Transaction(m, f, ok) ==
    IF ok
    THEN [m EXCEPT !.committed = Append(@, f), !.schema_migrations = @ \cup {f}]
    ELSE m

MigRest ==
    UNCHANGED <<cfg, chat, settings, errors, media, task, cur, last, call, probe, menus,
                presses>>

\* a migration file is added to the directory, named after those that are there
AddFile(f) ==
    /\ f \notin mig.dir
    /\ \A g \in mig.dir : g < f
    /\ mig' = [mig EXCEPT !.dir = @ \cup {f}]
    /\ MigRest

\* run_migrations up to its loop: the names recorded are read once, the files
\* are sorted, and the run ends at once when there is no file
run_migrations ==
    /\ mig.run = NoRun
    /\ mig.runs < MaxRuns
    /\ LET files == SortedFiles(mig.dir)
       IN  mig' = [mig EXCEPT !.runs = @ + 1,
                              !.run = IF files = <<>> THEN NoRun
                                      ELSE [active |-> TRUE, applied |-> mig.schema_migrations,
                                            files |-> files, k |-> 1]]
    /\ MigRest

\* one iteration of "for f in files": a file whose name was read as recorded is
\* passed over; the exception of a failing migration ends the run
run_migrations_loop ==
    /\ mig.run # NoRun
    /\ LET run == mig.run
           f == run.files[run.k]
           next == IF run.k = Len(run.files) THEN NoRun ELSE [run EXCEPT !.k = @ + 1]
       IN  IF f \in run.applied
           THEN mig' = [mig EXCEPT !.run = next]
           ELSE \E ok \in BOOLEAN :
                   mig' = [Transaction(mig, f, ok) EXCEPT
                              !.run = IF ok THEN next ELSE NoRun,
                              !.aborts = IF ok THEN @ ELSE @ + 1]
    /\ MigRest

InitMig == cfg = ShippedSettings /\ Quiet

NextMig ==
    \/ \E f \in 1..MaxFiles : AddFile(f)
    \/ run_migrations
    \/ run_migrations_loop

SpecMig == InitMig /\ [][NextMig]_vars

-----------------------------------------------------------------------------
(* SpecPress: presses of the extractor buttons of a chat whose awaits      *)
(* interleave, and calls of add_disabled_extractor and                     *)
(* remove_disabled_extractor in between                                    *)

MaxPresses == 2      \* the presses handled

PressChats == {2}
PressButtons == {"youtube", "tiktok"}

\* the steps that the presses have taken
Tick == Cardinality(DOMAIN presses)
          + Cardinality({p \in DOMAIN presses : presses[p].pc = "written"})

\* a handler that looks the id up again in the stored row before it writes
PressedOp_fresh(seen, stored) == IF stored THEN "remove" ELSE "add"

\* if ex_id in chat.disabled_extractors: remove ... else: add ..., with the chat
\* as the handler read it (seen), whatever the row holds by now (stored)
PressedOp(seen, stored) == IF seen THEN "remove" ELSE "add"

PressRest == UNCHANGED <<cfg, errors, media, task, cur, last, call, probe, menus, mig>>

\* cb_toggle_extractor up to its first await's return: the chat is read
cb_toggle_extractor_read(p, c, ex_id) ==
    /\ p \notin DOMAIN presses
    /\ menus[c] > 0
    /\ GetOrCreateChat(c)
    /\ presses' = [q \in DOMAIN presses \cup {p} |->
                     IF q = p
                     THEN [ chat |-> c, ex_id |-> ex_id, pc |-> "read",
                            seen |-> InArray(ex_id, ChatRow(chat', settings', c).disabled_extractors),
                            read_at |-> Tick + 1, wrote_at |-> 0 ]
                     ELSE presses[q]]
    /\ PressRest

\* the rest of cb_toggle_extractor: the update chosen on what was read, and the
\* chat read back for the keyboard
cb_toggle_extractor_write(p) ==
    /\ p \in DOMAIN presses
    /\ presses[p].pc = "read"
    /\ LET c == presses[p].chat
           x == presses[p].ex_id
           stored == InArray(x, settings[c].disabled_extractors)
       IN  UpdateAndReadBack(c,
               IF PressedOp(presses[p].seen, stored) = "remove"
               THEN remove_disabled_extractor(settings, c, x)
               ELSE add_disabled_extractor(settings, c, x))
    /\ presses' = [presses EXCEPT ![p].pc = "written", ![p].wrote_at = Tick + 1]
    /\ PressRest

InitPress == cfg = ShippedSettings /\ Quiet

NextPress ==
    \E c \in PressChats :
        \/ cmd_settings(1, c)
        \/ \E p \in 1..MaxPresses, x \in PressButtons : cb_toggle_extractor_read(p, c, x)
        \/ \E p \in 1..MaxPresses : cb_toggle_extractor_write(p)
        \/ \E x \in PressButtons : StoreAddDisabledExtractor(c, x)
        \/ \E x \in PressButtons : StoreRemoveDisabledExtractor(c, x)

SpecPress == InitPress /\ [][NextPress]_vars

-----------------------------------------------------------------------------
(* SpecLimit: URL messages of a chat under each instance limit, with the   *)
(* chat's album limit as created or as set                                 *)

LimitSettings == {Settings({}, {}, cap) : cap \in {0, 1, 10}}
LimitRequests == {"1", "3"}
LimitWords == {U_tiktok}

InitLimit == cfg \in LimitSettings /\ Quiet

NextLimit ==
    \/ cmd_settings(1, 1)
    \/ \E data \in LimitRequests : cb_album_set(1, 1, data)
    \/ \E text \in Texts(LimitWords) : url_handler(1, 1, text)
    \/ url_handler_loop
    \/ url_handler_return

SpecLimit == InitLimit /\ [][NextLimit]_vars

-----------------------------------------------------------------------------
(* Properties of the resolution of a URL (SpecMatch, SpecRoute)            *)

\* the descriptors of EXTRACTORS, by position, whose pattern accepts the probed URL
AcceptingAt(url) == {i \in 1..Len(EXTRACTORS) : Accepts(EXTRACTORS[i], url)}

\* the URLs of the messages that no pattern of the registry accepts
Unmatched == {u \in MessageUrls : AcceptingAt(u) = {}}

\* the ids of the descriptors that are not short links
DirectIds == {EXTRACTORS[i].id : i \in {j \in 1..Len(EXTRACTORS) : ~EXTRACTORS[j].redirect}}

\* a step of url_handler's loop: it takes up the URL at task.i
LoopStep == task # Idle /\ task' # Idle /\ task'.i # task.i

\* what Skip leaves behind: no call of the resolver or of the download, no reply,
\* no file, and both histories as they were
Skipped ==
    /\ cur'.skipped
    /\ ~cur'.resolve_called
    /\ ~cur'.download_called
    /\ cur'.replies = 0
    /\ cur'.sent = 0
    /\ errors' = errors
    /\ media' = media

\* C1: a URL whose first-matching descriptor is in the disabled_extractors that the
\* handler read for the chat is skipped, whatever the descriptor's redirect flag:
\* the resolver and the download are not invoked, no reply is sent, and neither
\* the error table nor the download history changes
C1_DisabledIsSkipped ==
    [][ (LoopStep /\ InArray(cur'.ex, task.row.disabled_extractors)) => Skipped ]_vars

\* a short link (redirect = true) of a disabled descriptor has been skipped
C1_Witness ==
    /\ task # Idle
    /\ cur.handled
    /\ cur.url = U_tiktok_vm
    /\ cur.ex = "tiktok_vm"
    /\ InArray("tiktok_vm", task.row.disabled_extractors)
    /\ cur.skipped

\* C2: match_extractor(url) is the first descriptor in the order of EXTRACTORS
\* whose pattern accepts url, and None when no pattern accepts it
C2_FirstMatch ==
    probe.id # "unset" =>
        LET acc == AcceptingAt(probe.url)
        IN  IF acc = {} THEN probe.id = "None"
            ELSE \E i \in acc : /\ \A j \in acc : i <= j
                                /\ probe.id = EXTRACTORS[i].id

\* a URL that two descriptors accept got the earlier one
C2_Witness ==
    /\ probe.id = "instagram"
    /\ Cardinality(AcceptingAt(probe.url)) > 1

\* a URL that no descriptor accepts got None
C2_WitnessNone ==
    /\ probe.id = "None"
    /\ AcceptingAt(probe.url) = {}

\* C3: a URL of a message that no registered pattern accepts is skipped: the
\* resolver and the download are not invoked for it, no reply is sent for it, and
\* neither the error table nor the download history changes
C3_UnmatchedIsSkipped ==
    [][ (LoopStep /\ task.urls[task.i] \in Unmatched) => Skipped ]_vars

\* the second URL of a message matched no pattern and was skipped
C3_Witness ==
    /\ task # Idle
    /\ Len(task.urls) = 2
    /\ task.i = 3
    /\ cur.handled
    /\ cur.url = U_example
    /\ cur.ex = "None"
    /\ cur.skipped

\* C4: when the resolver succeeds for a short link, the download gets the
\* resolver's URL, the rows of the history carry it as content_url, and the
\* extractor id recorded in them is the id of the descriptor that matched
C4_ResolvedKeepsDescriptorId ==
    (cur.handled /\ cur.resolve_ok) =>
        /\ cur.download_called
        /\ cur.download_url = cur.resolved
        /\ \A k \in 1..Len(cur.rows) :
              /\ cur.rows[k].content_url = cur.resolved
              /\ cur.rows[k].extractor_id = cur.ex

\* C5: when the resolver fails for a short link that is not disabled, the download
\* is still invoked, with the URL of the message, and the failure is neither
\* logged nor reported: a download that succeeds leaves no error and no reply
\* other than the processing notice and the files
C5_ResolverFailureFallsBack ==
    (cur.handled /\ cur.resolve_called /\ ~cur.resolve_ok) =>
        /\ cur.download_called
        /\ cur.download_url = cur.url
        /\ (cur.download_ok /\ ~cur.failed) =>
              /\ cur.errs = <<>>
              /\ cur.replies <= 1 + cur.sent
              /\ \A k \in 1..Len(cur.rows) : cur.rows[k].content_url = cur.url

\* the resolver failed for a short link and its file was delivered and recorded
C5_Witness ==
    /\ cur.handled
    /\ cur.ex = "tiktok_vm"
    /\ cur.resolve_called
    /\ ~cur.resolve_ok
    /\ cur.download_url = U_tiktok_vm
    /\ cur.download_ok
    /\ cur.errs = <<>>
    /\ Len(cur.rows) > 0

\* C6: for a URL whose descriptor has redirect = false the resolver is never
\* invoked and the download gets the URL of the message
C6_DirectUrlUnchanged ==
    (cur.handled /\ cur.ex \in DirectIds) =>
        /\ ~cur.resolve_called
        /\ cur.download_called => cur.download_url = cur.url
        /\ \A k \in 1..Len(cur.rows) : cur.rows[k].content_url = cur.url

\* a URL of a descriptor with redirect = false was downloaded and recorded
C6_Witness ==
    /\ cur.handled
    /\ cur.ex = "tiktok"
    /\ cur.ex \in DirectIds
    /\ cur.download_called
    /\ cur.download_url = U_tiktok
    /\ Len(cur.rows) > 0

-----------------------------------------------------------------------------
(* Properties of the chat preferences (SpecAlbum, SpecStore)               *)

\* how often x occurs in the array arr
Count(x, arr) == Cardinality({k \in 1..Len(arr) : arr[k] = x})

\* the album limit stored for the chat of the latest update
StoredLimit == settings[last.chat].media_album_limit

\* the album limit stored for that chat before the latest update
LimitBefore ==
    IF last.prev = <<>> THEN cfg.DEFAULT_MEDIA_ALBUM_LIMIT
    ELSE last.prev[1].media_album_limit

C8_AddTwiceRemoveAbsent ==
    /\ (call.op = "add_disabled_extractor" /\ call.again) =>
          /\ DisabledBefore(call.chat_id) = call.before
          /\ Count(call.arg, call.before.arr) = (IF call.before.exists THEN 1 ELSE 0)
    /\ (call.op = "remove_disabled_extractor" /\ ~InArray(call.arg, call.before.arr)) =>
          DisabledBefore(call.chat_id) = call.before

\* the second add of an id to a chat that has a row and another disabled id
C8_Witness ==
    /\ call.op = "add_disabled_extractor"
    /\ call.again
    /\ call.before.exists
    /\ Len(call.before.arr) = 2
    /\ Count(call.arg, DisabledBefore(call.chat_id).arr) = 1

\* the removal of an id that the array of the chat does not hold
C8_WitnessRemove ==
    /\ call.op = "remove_disabled_extractor"
    /\ call.before.exists
    /\ call.before.arr # <<>>
    /\ ~InArray(call.arg, call.before.arr)

-----------------------------------------------------------------------------
(* Properties of the authorization gate (Spec)                             *)

\* C9: with a whitelist that is not empty, an update from a user who is not on it
\* gets no response, creates no row and changes no preference of the chat
C9_NonWhitelistedIgnored ==
    (cfg.WHITELIST # {} /\ last.handler # "" /\ last.user \in Users \ cfg.WHITELIST) =>
        /\ ~last.responded
        /\ RowOf(last.chat) = last.prev

\* C10: /stats and /derr answer only a member of ADMINS, whether or not the
\* sender is on the whitelist: a sender outside ADMINS gets no answer, and a
\* member of ADMINS gets one to /stats and to /derr with an error id
C10_AdminOnly ==
    last.handler \in {"cmd_stats", "cmd_derr"} =>
        /\ last.responded => last.user \in cfg.ADMINS
        /\ (last.user \in cfg.ADMINS /\ (last.handler = "cmd_stats" \/ last.arg # ""))
              => last.responded

\* an admin who is not on the whitelist got the answer to /stats
C10_Witness ==
    /\ last.handler = "cmd_stats"
    /\ cfg.WHITELIST # {}
    /\ last.user \in cfg.ADMINS \ cfg.WHITELIST
    /\ last.responded

\* a user on the whitelist who is not an admin got no answer to /derr with an id
C10_WitnessDenied ==
    /\ last.handler = "cmd_derr"
    /\ last.arg # ""
    /\ last.user \in cfg.WHITELIST \ cfg.ADMINS
    /\ ~last.responded

-----------------------------------------------------------------------------
(* Properties of the processing of a message's URLs (SpecRoute)            *)

\* C11: every URL of a message is processed, whatever failed for the URLs before
\* it: when url_handler ends, its loop has taken up each URL of the message
C11_EveryUrlProcessed ==
    (task # Idle /\ task.i > Len(task.urls)) => task.handled = Len(task.urls)

-----------------------------------------------------------------------------
(* Properties of get_or_create_chat and of the single-field updates        *)
(* (SpecPrefs)                                                             *)

\* the fields of a settings row other than the language
OtherFields ==
    {"captions", "silent", "nsfw", "media_album_limit", "delete_links",
     "disabled_extractors"}

\* the rows of the chats other than c are as they were
OtherChatsUnchanged(c) ==
    /\ DOMAIN settings' \ {c} = DOMAIN settings \ {c}
    /\ DOMAIN chat' \ {c} = DOMAIN chat \ {c}
    /\ \A d \in DOMAIN settings \ {c} : settings'[d] = settings[d]
    /\ \A d \in DOMAIN chat \ {c} : chat'[d] = chat[d]

\* C12: get_or_create_chat leaves one row for the chat; when the chat had its row
\* the call keeps and returns the stored type, captions, silent, nsfw,
\* media_album_limit, delete_links and disabled_extractors, not the defaults
C12_CreatedOnce ==
    [][ call'.op = "get_or_create_chat" =>
          LET c == call'.chat_id
              row == call'.returned[1]
          IN  /\ c \in DOMAIN chat' /\ c \in DOMAIN settings'
              /\ OtherChatsUnchanged(c)
              /\ row.chat_id = c
              /\ row.type = chat'[c].type
              /\ \A f \in OtherFields : row[f] = settings'[c][f]
              /\ c \in DOMAIN chat => chat'[c] = chat[c]
              /\ c \in DOMAIN settings =>
                    \A f \in OtherFields : settings'[c][f] = settings[c][f] ]_vars

\* a later call, with another chat type, for a chat whose stored preferences all
\* differ from the defaults
C12_Witness ==
    /\ call.op = "get_or_create_chat"
    /\ call.chat_id = 2
    /\ call.arg = "private"
    /\ chat[2].type = "group"
    /\ call.returned[1].type = "group"
    /\ ~settings[2].captions
    /\ settings[2].silent
    /\ settings[2].nsfw
    /\ settings[2].delete_links
    /\ settings[2].media_album_limit = 3
    /\ settings[2].disabled_extractors = <<"youtube">>

C19_ToggleFlipsOwnField ==
    [][ call'.op = "toggle" =>
          LET c == call'.chat_id
              a == call'.arg
          IN  /\ chat' = chat
              /\ DOMAIN settings' = DOMAIN settings
              /\ \A d \in DOMAIN settings \ {c} : settings'[d] = settings[d]
              /\ c \in DOMAIN settings =>
                    /\ settings'[c][a] = ~settings[c][a]
                    /\ \A f \in (OtherFields \cup {"language"}) \ {a} :
                          settings'[c][f] = settings[c][f]
                    /\ \A b \in PrefsToggles(c) \ {a} :
                          /\ ToggleQuery(b, settings', c)
                                = ToggleQuery(a, ToggleQuery(b, settings, c), c)
                          /\ ToggleQuery(b, settings', c)[c][a] = ~settings[c][a]
                          /\ ToggleQuery(b, settings', c)[c][b] = ~settings[c][b] ]_vars

\* a toggle of captions on a chat whose other fields all differ from the
\* defaults, beside another chat with a row
C19_Witness ==
    /\ call.op = "toggle"
    /\ call.chat_id = 2
    /\ call.arg = "captions"
    /\ DOMAIN settings = {1, 2}
    /\ settings[2].language = "de"
    /\ settings[2].silent
    /\ settings[2].nsfw
    /\ settings[2].delete_links
    /\ settings[2].media_album_limit = 3
    /\ settings[2].disabled_extractors = <<"youtube">>

-----------------------------------------------------------------------------
(* Properties of the stored album limit (SpecAlbum)                        *)

\* C14: every stored media_album_limit is at least 1 and, when the instance's
\* limit is above 0, at most that limit, from the creation of the row on
C14_StoredLimitInRange ==
    \A c \in DOMAIN settings :
        /\ settings[c].media_album_limit >= 1
        /\ cfg.DEFAULT_MEDIA_ALBUM_LIMIT > 0 =>
               settings[c].media_album_limit <= cfg.DEFAULT_MEDIA_ALBUM_LIMIT

-----------------------------------------------------------------------------
(* Properties of the stored disabled_extractors (Spec)                     *)

\* C15: every id in a chat's disabled_extractors is the id of a descriptor of
\* EXTRACTORS, whatever id the pressed settings.extractor.<id> button carried
C15_DisabledIdsAreRegistered ==
    \A c \in DOMAIN settings :
        \A k \in 1..Len(settings[c].disabled_extractors) :
            settings[c].disabled_extractors[k] \in ExtractorIds

-----------------------------------------------------------------------------
(* Properties of the registry's patterns (SpecMatch)                       *)

\* C16: the patterns of EXTRACTORS are pairwise disjoint: at most one descriptor
\* accepts the URL that was probed
C16_PatternsDisjoint ==
    probe.id # "unset" => Cardinality(AcceptingAt(probe.url)) <= 1

-----------------------------------------------------------------------------
(* Properties of the record of errors (SpecRoute)                          *)

\* the error that an iteration of url_handler's loop has recorded
Logged == LoopStep /\ cur'.errs # <<>>

\* C17: an error is recorded under the id that ErrId gives its text, and the table
\* holds one record for each text: an occurrence of a text already recorded
\* leaves the number of records as it was, adds one to the record's occurrences
\* and sets its last_seen to the time of the occurrence, later than before; an
\* occurrence of a new text adds one record; no other record changes
C17_OneRecordPerText ==
    [][ Logged =>
          LET e == cur'.errs[1]
          IN  /\ \E text \in ErrTexts \cup {"send", "insert"} :
                    /\ e.message = "Exception(" \o text \o ")"
                    /\ e.id = ErrId(text)
              /\ DOMAIN errors' = DOMAIN errors \cup {e.id}
              /\ \A i \in DOMAIN errors \ {e.id} : errors'[i] = errors[i]
              /\ \A i, j \in DOMAIN errors' :
                    errors'[i].message = errors'[j].message => i = j
              /\ errors'[e.id].message = e.message
              /\ \A i \in DOMAIN errors' : errors'[i].last_seen <= errors'[e.id].last_seen
              /\ e.id \in DOMAIN errors =>
                    /\ Cardinality(DOMAIN errors') = Cardinality(DOMAIN errors)
                    /\ errors'[e.id].occurrences = errors[e.id].occurrences + 1
                    /\ errors'[e.id].last_seen > errors[e.id].last_seen
              /\ e.id \notin DOMAIN errors =>
                    Cardinality(DOMAIN errors') = Cardinality(DOMAIN errors) + 1
      ]_vars

\* the second URL of a message has failed with the text of the first: the table
\* holds one record, which counts two occurrences and was seen at the second
C17_Witness ==
    /\ cur.errs # <<>>
    /\ cur.errs[1].id \in DOMAIN errors
    /\ errors[cur.errs[1].id].occurrences = 2
    /\ errors[cur.errs[1].id].last_seen = 2
    /\ Cardinality(DOMAIN errors) = 1

-----------------------------------------------------------------------------
(* Properties of the download history (SpecRoute)                          *)

\* the rows that an iteration of url_handler's loop has appended to the history
Written == Len(media') - Len(media)

\* C18, as stated: the rows written for a URL are as many as its files that
\* were sent
C18_RowPerDeliveredFile ==
    [][ LoopStep => Written = cur'.sent ]_vars

\* C18, amended: a row is written only for a file that was sent, for the chat and
\* the URL of the download, and the rows written are as many as the files sent
\* unless insert_download failed for a file that was sent: then that file, the
\* last one sent, has no row, and the rows are one fewer
C18_RowPerRecordedFile ==
    [][ LoopStep =>
          /\ Written <= cur'.sent
          /\ cur'.fail_op # "insert" => Written = cur'.sent
          /\ cur'.fail_op = "insert" => Written = cur'.sent - 1
          /\ \A k \in (Len(media) + 1)..Len(media') :
                /\ media'[k].chat_id = task.chat
                /\ media'[k].content_url = cur'.download_url
          /\ \A k \in 1..Len(media) : media'[k] = media[k]
      ]_vars

\* both files of an album were sent and recorded
C18_Witness ==
    /\ cur.download_ok
    /\ ~cur.failed
    /\ cur.sent = 2
    /\ Len(cur.rows) = 2
    /\ Len(media) >= 2

\* the second file of an album was sent and its insert_download failed: two
\* files sent, one row
C18_WitnessInsertFailed ==
    /\ cur.fail_op = "insert"
    /\ cur.sent = 2
    /\ Len(cur.rows) = 1
    /\ Len(media) >= 1

-----------------------------------------------------------------------------
(* Properties of the short links' own ids (SpecRoute)                      *)

\* a press of a settings.extractor.<id> button that cb_toggle_extractor has handled
Toggled == last'.handler = "cb_toggle_extractor" /\ last' # last

C20_WitnessSource ==
    /\ task # Idle
    /\ InArray("tiktok_vm", task.row.disabled_extractors)
    /\ ~InArray("tiktok", task.row.disabled_extractors)
    /\ cur.url = U_tiktok
    /\ cur.ex = "tiktok"
    /\ ~cur.skipped
    /\ cur.download_called

-----------------------------------------------------------------------------
(* Properties of the number of files delivered (SpecLimit)                 *)

\* C21: the files delivered for a URL are never more than the media_album_limit
\* that the handler read for the chat, whatever the stored limit is (0 included)
\* and whether the post has one item or several
C21_DeliveredWithinLimit ==
    (task # Idle /\ cur.handled) => cur.sent <= task.row.media_album_limit

\* the same for the limits of 1 and more only
C21_DeliveredWithinPositiveLimit ==
    (task # Idle /\ cur.handled /\ task.row.media_album_limit >= 1) =>
        cur.sent <= task.row.media_album_limit

-----------------------------------------------------------------------------
(* Properties of the order of the registry (SpecMatch)                     *)

\* the probed URLs that the pattern of each descriptor accepts, by position
AcceptedBy == [i \in 1..Len(EXTRACTORS) |-> {u \in ProbeUrls : Accepts(EXTRACTORS[i], u)}]

\* the ids that match_extractor returns for the probed URLs
Returned == {match_extractor(u).id : u \in ProbeUrls}

\* C22: of two descriptors that accept the probed URL, the one declared first is
\* the more specific (it accepts fewer URLs), and every descriptor of EXTRACTORS
\* is returned by match_extractor for some URL
C22_SpecificBeforeGeneral ==
    probe.id # "unset" =>
        /\ \A i, j \in AcceptingAt(probe.url) :
              i < j => (AcceptedBy[i] \subseteq AcceptedBy[j] /\ AcceptedBy[i] # AcceptedBy[j])
        /\ ExtractorIds \subseteq Returned

\* the descriptors that match_extractor returns for no URL are the two that
\* are declared after "instagram"
C22_Unreturned ==
    probe.id # "unset" => ExtractorIds \ Returned = {"instagram_stories", "instagram_share"}

-----------------------------------------------------------------------------
(* Properties of the hidden flag (SpecMatch)                               *)

\* the positions of the table that the probe's flags leave visible
Shown == (1..Len(EXTRACTORS)) \ probe.hidden

\* C23: list_visible_extractors returns the descriptors whose hidden flag is
\* false and no other, each once and in the order of the table; and
\* match_extractor returns for a URL the descriptor of the same id whatever the
\* hidden flags of the table are
C23_HiddenOnlyHides ==
    probe.id # "unset" =>
        /\ Len(probe.visible) = Cardinality(Shown)
        /\ \A p \in Shown :
              probe.visible[Cardinality({q \in Shown : q <= p})] = Registry(probe.hidden)[p]
        /\ \A k \in 1..Len(probe.visible) : ~probe.visible[k].hidden
        /\ probe.flagged = probe.id
        /\ probe.hidden = ShippedHidden =>
              probe.visible = list_visible_extractors

\* a short link was probed with the hidden flags inverted: the visible short
\* links are listed, and the URL is matched as with the declared flags
C23_Witness ==
    /\ probe.id = "tiktok_vm"
    /\ probe.flagged = "tiktok_vm"
    /\ probe.hidden = (1..Len(EXTRACTORS)) \ ShippedHidden
    /\ Len(probe.visible) = Cardinality(ShippedHidden)
    /\ probe.visible[1].id = "tiktok_vm"

\* a hidden short link was probed with the flags as declared: it is matched and
\* it is not listed
C23_WitnessShipped ==
    /\ probe.id = "tiktok_vm"
    /\ probe.hidden = ShippedHidden
    /\ probe.visible = list_visible_extractors
    /\ \A k \in 1..Len(probe.visible) : probe.visible[k].id # "tiktok_vm"

-----------------------------------------------------------------------------
(* Properties of run_migrations (SpecMig)                                  *)

\* C24: over the runs of run_migrations, a run aborted by a failing migration
\* and repeated included, the SQL of a file is committed at most once, the files
\* are committed in the lexical order of their names, and a name is recorded in
\* schema_migrations if and only if the SQL of its file was committed
C24_OnceInOrderRecorded ==
    /\ \A i, j \in 1..Len(mig.committed) : i < j => mig.committed[i] < mig.committed[j]
    /\ mig.schema_migrations = {mig.committed[i] : i \in 1..Len(mig.committed)}
    /\ mig.schema_migrations \subseteq mig.dir

\* a run was aborted by a failing migration, and a later run has ended with the
\* three files committed
C24_Witness ==
    /\ mig.aborts >= 1
    /\ mig.runs >= 2
    /\ mig.run = NoRun
    /\ mig.committed = <<1, 2, 3>>
    /\ mig.schema_migrations = {1, 2, 3}

-----------------------------------------------------------------------------
(* Properties of interleaved presses of an extractor button (SpecPress)    *)

\* no id occurs twice in a chat's disabled_extractors
EachIdOnce ==
    \A c \in DOMAIN settings :
        \A x \in PressButtons : Count(x, settings[c].disabled_extractors) <= 1

\* p and q are the two presses handled, of the same button of the same chat;
\* each read the chat before either wrote, both have written, and no other
\* call has touched the chat's disabled_extractors
Concurrent(p, q) ==
    /\ p # q
    /\ DOMAIN presses = {p, q}
    /\ presses[p].chat = presses[q].chat
    /\ presses[p].ex_id = presses[q].ex_id
    /\ presses[p].pc = "written"
    /\ presses[q].pc = "written"
    /\ presses[p].read_at < presses[q].wrote_at
    /\ presses[q].read_at < presses[p].wrote_at
    /\ call = NoCall

\* whether the button's id is in the disabled_extractors of the press's chat
DisabledNow(p) ==
    InArray(presses[p].ex_id, settings[presses[p].chat].disabled_extractors)

\* C25, as stated: each id occurs at most once, and two concurrent presses of a
\* button leave its id as two presses one after the other do, in either order:
\* as it was when they read it
C25_ConcurrentPressesSerialize ==
    /\ EachIdOnce
    /\ \A p, q \in DOMAIN presses :
          Concurrent(p, q) => DisabledNow(p) = presses[p].seen

\* C25, amended: each id occurs at most once after any interleaving of presses
\* and of add and remove calls, and two concurrent presses of a button, having
\* read the same, apply the same update: the id is left as one press alone
\* leaves it, the opposite of what they read
C25_ConcurrentPressesActOnce ==
    /\ EachIdOnce
    /\ \A p, q \in DOMAIN presses :
          Concurrent(p, q) =>
              /\ presses[p].seen = presses[q].seen
              /\ DisabledNow(p) = ~presses[p].seen

\* two presses of "youtube" have read it enabled, and both have added it: it
\* is disabled, once
C25_Witness ==
    /\ Concurrent(1, 2)
    /\ presses[1].ex_id = "youtube"
    /\ ~presses[1].seen
    /\ ~presses[2].seen
    /\ settings[2].disabled_extractors = <<"youtube">>

=============================================================================
